---- MODULE Spec2Model ----
(***************************************************************************)
(* AgroSanga: the session container (AuthProvider), the Register and Login *)
(* form pages, the Navbar sign-out, and the file selection of the two      *)
(* feature pages, together with the hosted backend they talk to (accounts, *)
(* the profiles table with its row-level policies, the auth notifications).*)
(*                                                                         *)
(* Strings are sequences of one-character strings, so that length checks,  *)
(* trim, the digit filter, parseFloat and the synthetic address are        *)
(* computed as the code computes them.                                     *)
(*                                                                         *)
(* The backend is an environment: every awaited call may resolve with a    *)
(* value, resolve with an error value, or reject (the handlers wrap their  *)
(* awaits in try/catch).  The deployment creates accounts confirmed (the   *)
(* synthetic addresses cannot receive mail), so a successful account       *)
(* creation also establishes the backend session.                          *)
(***************************************************************************)
EXTENDS Integers, Sequences, FiniteSets, TLC

VARIABLES
  authUsers,   \* backend: auth.users, a set of [id, email, password]
  profiles,    \* backend: rows of public.profiles
  authUid,     \* backend: auth.uid() of the client's current session
  notifQ,      \* auth notifications emitted and not yet delivered
  storage,     \* backend: objects stored in the bucket 'soil-reports'
  yieldRows,   \* backend: rows of public.yield_predictions
  cropRows,    \* backend: rows of public.crop_recommendations
  gsState,     \* the initial getSession(): "pending", "read", "done"
  gsResult,    \* the session getSession() resolved with
  user,        \* AuthProvider state: user (an id, NoUser for null)
  session,     \* AuthProvider state: session
  loading,     \* AuthProvider state: loading
  timers,      \* setTimeout(..., 0) profile lookups not yet run
  route,       \* the mounted page
  toast,       \* title of the toast the last step emitted (NoToast: none)
  formData,    \* Register: formData
  regErrors,   \* Register: errors
  mobileNumber,\* Login: mobileNumber
  password,    \* Login: password
  logErrors,   \* Login: errors
  lastTyped,   \* e.target.value of the last contact-number change event
  selectedFile,\* feature page: selectedFile
  uploading,   \* PredictYield: uploading
  analyzing,   \* feature page: analyzing
  progress,    \* feature page: progress
  result,      \* feature page: result
  farmArea,    \* RecommendCrop: farmArea
  weatherData, \* RecommendCrop: weatherData (TRUE when set)
  fetchFor,    \* RecommendCrop fetchUserData: the user it runs for (NoUser: idle)
  resetTimers, \* setTimeout(() => setProgress(0), 1000) not yet run
  suPc,        \* signUp: "idle", "auth" (awaiting auth.signUp), "insert"
  suArgs,      \* signUp: its arguments (email, password, userData)
  suUser,      \* signUp: data.user.id
  siPc,        \* signIn: "idle", "lookup", "password"
  siArgs,      \* signIn: its arguments (mobile, password)
  soPc,        \* signOut: "idle", "signOut"
  anPc,        \* handleAnalysis: "idle", "upload", "analysis", "insert"
  anArgs,      \* handleAnalysis: the page, user, file and farm area it runs with
  anDetached,  \* handleAnalysis: its page was left while it runs
  lastCall     \* the container call that returned last, and the error it ended with

backendVars == <<authUsers, profiles, authUid, notifQ, storage, yieldRows, cropRows>>
gsVars == <<gsState, gsResult>>
sessVars == <<user, session, loading, timers>>
regVars == <<formData, regErrors>>
logVars == <<mobileNumber, password, logErrors>>
featVars == <<selectedFile, uploading, analyzing, progress, result,
              farmArea, weatherData, fetchFor, resetTimers>>
pageVars == <<regVars, logVars, lastTyped, featVars>>
suVars == <<suPc, suArgs, suUser>>
siVars == <<siPc, siArgs>>
anVars == <<anPc, anArgs, anDetached>>
vars == <<backendVars, gsVars, sessVars, route, toast, pageVars,
          suVars, siVars, soPc, anVars, lastCall>>

----------------------------------------------------------------------------
(* Bounds *)
MaxUsers == 1      \* accounts the backend can hold
MaxPending == 1    \* auth notifications in flight
MaxTimers == 1     \* deferred profile lookups not yet run
MaxPaste == 1      \* characters one edit of the contact-number input inserts
MaxRows == 2       \* stored objects, and rows per result table
MaxResets == 1     \* progress resets not yet run

----------------------------------------------------------------------------
(* Strings *)
RECURSIVE Rep(_, _)
Rep(c, n) == IF n = 0 THEN <<>> ELSE <<c>> \o Rep(c, n - 1)

DigitChars == <<"0", "1", "2", "3", "4", "5", "6", "7", "8", "9">>
IsDigit(c) == \E i \in 1..10 : DigitChars[i] = c
DigitVal(c) == (CHOOSE i \in 1..10 : DigitChars[i] = c) - 1
IsSpace(c) == c = " "

\* String.prototype.trim
RECURSIVE TrimStart(_)
TrimStart(s) == IF s # <<>> /\ IsSpace(Head(s)) THEN TrimStart(Tail(s)) ELSE s
RECURSIVE TrimEnd(_)
TrimEnd(s) ==
  IF s # <<>> /\ IsSpace(s[Len(s)]) THEN TrimEnd(SubSeq(s, 1, Len(s) - 1)) ELSE s
Trim(s) == TrimEnd(TrimStart(s))

\* value.replace(/\D/g, '')
RECURSIVE StripNonDigits(_)
StripNonDigits(s) ==
  IF s = <<>> THEN <<>>
  ELSE IF IsDigit(Head(s)) THEN <<Head(s)>> \o StripNonDigits(Tail(s))
  ELSE StripNonDigits(Tail(s))

\* String.prototype.slice(0, n)
Slice0(s, n) == SubSeq(s, 1, IF Len(s) < n THEN Len(s) ELSE n)

\* parseFloat on a decimal literal: leading blanks, an optional sign, digits,
\* an optional fraction; the value is mant / 10^scale.  (The inputs below hold
\* no exponent and no "Infinity".)
RECURSIVE DigitRun(_)
DigitRun(s) == IF s # <<>> /\ IsDigit(Head(s)) THEN 1 + DigitRun(Tail(s)) ELSE 0
RECURSIVE DigitsValue(_)
DigitsValue(s) ==
  IF s = <<>> THEN 0 ELSE 10 * DigitsValue(SubSeq(s, 1, Len(s) - 1)) + DigitVal(s[Len(s)])
Drop(s, n) == SubSeq(s, n + 1, Len(s))
parseFloat(str) ==
  LET s0 == TrimStart(str)
      signed == s0 # <<>> /\ Head(s0) \in {"+", "-"}
      neg == signed /\ Head(s0) = "-"
      s1 == IF signed THEN Tail(s0) ELSE s0
      il == DigitRun(s1)
      s2 == Drop(s1, il)
      dot == s2 # <<>> /\ Head(s2) = "."
      fl == IF dot THEN DigitRun(Tail(s2)) ELSE 0
      ds == SubSeq(s1, 1, il) \o (IF dot THEN SubSeq(Tail(s2), 1, fl) ELSE <<>>)
      m == DigitsValue(ds)
  IN IF il + fl = 0 THEN [nan |-> TRUE, mant |-> 0, scale |-> 0]
     ELSE [nan |-> FALSE, mant |-> IF neg THEN 0 - m ELSE m, scale |-> fl]
isNaN(x) == x.nan
Positive(x) == ~x.nan /\ x.mant > 0     \* x > 0 (false for NaN)

\* `${mobile}@agrosanga.local`
EmailSuffix == <<"@", "a", "g", "r", "o", "s", "a", "n", "g", "a", ".", "l", "o", "c", "a", "l">>
EmailOf(mobile) == mobile \o EmailSuffix
\* (variant: signIn authenticates with the bare contact number)
SignInEmail_bare(mobile) == mobile
\* signIn: `${mobile}@agrosanga.local`
SignInEmail(mobile) == mobile \o EmailSuffix

----------------------------------------------------------------------------
(* Sessions and users *)
NoUser == 0
UserIds == 1..MaxUsers
NoSession == [present |-> FALSE, user |-> NoUser]
SessionOf(u) == [present |-> TRUE, user |-> u]
\* (variant: the user is never taken from the session)
SessionUser_null(s) == NoUser
SessionUser(s) == IF s.present THEN s.user ELSE NoUser     \* session?.user ?? null
BackendSession == IF authUid = NoUser THEN NoSession ELSE SessionOf(authUid)

----------------------------------------------------------------------------
(* Form inputs *)
Ravi == <<"R", "a", "v", "i">>
M1 == <<"9", "8", "7", "6", "5", "4", "3", "2", "1", "0">>
M2 == <<"9", "8", "7", "6", "5", "4", "3", "2", "1", "1">>
Secret1 == <<"s", "e", "c", "r", "e", "t", "1">>
Secret2 == <<"s", "e", "c", "r", "e", "t", "2">>
Area25 == <<"2", ".", "5">>

NameMin == 2
NameMax == 50
MobileLen == 10
PasswordMin == 6
PasswordMax == 100

EmptyForm == [name |-> <<>>, mobileNumber |-> <<>>, password |-> <<>>,
              surveyNumber |-> <<>>, farmArea |-> <<>>]
NoErrors == <<>>
NoToast == "none"

\* values entered in the running application
Fields == {"name", "password", "farmArea"}
Samples(field) ==
  CASE field = "name" -> {Ravi}
    [] field = "password" -> {Secret1}
    [] field = "farmArea" -> {Area25}
TypedSamples == {M1, <<"9", "8", "7", "6", "5", "-", "4", "3", "2", "1", "1", "7">>}
LoginPasswordSamples == {Secret1}

\* values a submitted form is drawn from
NameInputs == {<<>>, <<"R">>, <<"R", "a">>, <<" ", " ">>, <<" ", "R", "a", " ">>, Ravi,
               Rep("a", NameMax), Rep("a", NameMax + 1)}
MobileInputs == {<<>>, SubSeq(M1, 1, MobileLen - 1), M1}
PasswordInputs == {<<>>, Rep("p", PasswordMin - 1), Rep("p", PasswordMin), Secret1,
                   Rep("p", PasswordMax), Rep("p", PasswordMax + 1)}
\* (the area input has type="number": its value is empty or a decimal literal)
AreaInputs == {<<>>, <<"0">>, <<"0", ".", "0">>, <<"-", "1">>, <<".", "5">>, Area25}

----------------------------------------------------------------------------
(* Schema validation (zod): every check of every field is evaluated, each
   failure adds an issue, in field order and check order. *)
Issue(field, message) == <<[path |-> field, message |-> message]>>
When(cond, issues) == IF cond THEN issues ELSE <<>>
AllDigits(s) == Len(s) >= 1 /\ \A i \in 1..Len(s) : IsDigit(s[i])    \* /^[0-9]+$/

mobileNumberIssues(m) ==
     When(Len(m) < MobileLen, Issue("mobileNumber", "Mobile number must be 10 digits"))
  \o When(Len(m) > MobileLen, Issue("mobileNumber", "Mobile number must be 10 digits"))
  \o When(~AllDigits(m), Issue("mobileNumber", "Mobile number must contain only numbers"))

\* (variant: the name's minimum length is not checked)
registerSchema_noNameMin(fd) ==
     When(Len(fd.name) > NameMax, Issue("name", "Name must be less than 50 characters"))
  \o mobileNumberIssues(fd.mobileNumber)
  \o When(Len(fd.password) < PasswordMin, Issue("password", "Password must be at least 6 characters"))
  \o When(Len(fd.password) > PasswordMax, Issue("password", "Password too long"))
  \o When(Len(fd.farmArea) < 1, Issue("farmArea", "Farm area is required"))
  \o When(~(~isNaN(parseFloat(fd.farmArea)) /\ Positive(parseFloat(fd.farmArea))),
          Issue("farmArea", "Farm area must be a positive number"))

registerSchema(fd) ==
     When(Len(fd.name) < NameMin, Issue("name", "Name must be at least 2 characters"))
  \o When(Len(fd.name) > NameMax, Issue("name", "Name must be less than 50 characters"))
  \o mobileNumberIssues(fd.mobileNumber)
  \o When(Len(fd.password) < PasswordMin, Issue("password", "Password must be at least 6 characters"))
  \o When(Len(fd.password) > PasswordMax, Issue("password", "Password too long"))
  \o When(Len(fd.farmArea) < 1, Issue("farmArea", "Farm area is required"))
  \o When(~(~isNaN(parseFloat(fd.farmArea)) /\ Positive(parseFloat(fd.farmArea))),
          Issue("farmArea", "Farm area must be a positive number"))

loginSchema(m, p) ==
     mobileNumberIssues(m)
  \o When(Len(p) < PasswordMin, Issue("password", "Password must be at least 6 characters"))

\* error.errors.forEach(err => newErrors[err.path[0]] = err.message)
newErrors(issues) ==
  [f \in {issues[i].path : i \in DOMAIN issues} |->
     LET last == CHOOSE i \in DOMAIN issues :
                   /\ issues[i].path = f
                   /\ \A j \in DOMAIN issues : issues[j].path = f => j <= i
     IN issues[last].message]

----------------------------------------------------------------------------
(* Files and feature pages *)
MaxFileSize == 5 * 1024 * 1024
AllowedTypes == {"image/jpeg", "image/png", "application/pdf"}
FileTypes == AllowedTypes \cup {"image/gif"}
FileSizes == {MaxFileSize, MaxFileSize + 1}
Files == [type : FileTypes, size : FileSizes]
NoFile == [type |-> "none", size |-> 0]
NoResult == "null"
MockResult == "mockResult"
FeatureRoutes == {"/predict-yield", "/recommend-crop"}

----------------------------------------------------------------------------
(* Routing: a page keeps its state in the component, so a page that is left
   loses it and starts from its initial state when entered again; a handler
   still running for the page that was left can no longer write that state. *)
AuthRoutes == {"/", "/login", "/register"}

InitialPage(r) ==
  /\ formData' = EmptyForm
  /\ regErrors' = NoErrors
  /\ mobileNumber' = <<>>
  /\ password' = <<>>
  /\ logErrors' = NoErrors
  /\ lastTyped' = <<>>
  /\ selectedFile' = NoFile
  /\ uploading' = FALSE
  /\ analyzing' = FALSE
  /\ progress' = 0
  /\ result' = NoResult
  /\ farmArea' = <<>>
  /\ weatherData' = FALSE
  /\ fetchFor' = IF r = "/recommend-crop" THEN user ELSE NoUser
  /\ resetTimers' = 0

GoTo(r) ==
  /\ route' = r
  /\ IF r = route
       THEN UNCHANGED <<pageVars, anDetached>>
       ELSE /\ InitialPage(r)
            /\ anDetached' = (anPc # "idle")

Stay == UNCHANGED <<route, pageVars, anDetached>>

\* <Link to=...> / the address bar
Navigate(r) ==
  /\ r # route
  /\ GoTo(r)
  /\ toast' = NoToast
  /\ UNCHANGED <<backendVars, gsVars, sessVars, suVars, siVars, soPc, anPc, anArgs, lastCall>>

----------------------------------------------------------------------------
(* Backend: tables, constraints and row-level policies *)
ProfileRow(uid, name, mobile, survey, area) ==
  [user_id |-> uid, name |-> name, mobile_number |-> mobile,
   survey_number |-> survey, farm_area |-> area]

\* policy "Users can insert their own profile", and the table's constraints
ProfileInsertPolicy(row) == authUid = row.user_id
\* (variant: the table has no UNIQUE constraints)
ProfileConstraints_noUnique(row) ==
  /\ \E a \in authUsers : a.id = row.user_id
  /\ ~row.farm_area.nan
ProfileConstraints(row) ==
  /\ \E a \in authUsers : a.id = row.user_id                       \* REFERENCES auth.users
  /\ \A q \in profiles : q.user_id # row.user_id                   \* user_id UNIQUE
  /\ \A q \in profiles : q.mobile_number # row.mobile_number       \* mobile_number UNIQUE
  /\ ~row.farm_area.nan                                            \* NOT NULL
ProfileInsertAllowed(row) == ProfileInsertPolicy(row) /\ ProfileConstraints(row)

\* policy "Users can view their own profile"
ProfileSelectPolicy(row) == authUid = row.user_id
VisibleProfiles == {q \in profiles : ProfileSelectPolicy(q)}

\* .from('profiles').select(...).eq('mobile_number', mobile).single()
ProfileByMobile(mobile) == {q \in VisibleProfiles : q.mobile_number = mobile}
\* .from('profiles').select(...).eq('user_id', id).single()
ProfileByUser(uid) == {q \in VisibleProfiles : q.user_id = uid}

Notify(event, sess) == notifQ' = Append(notifQ, [event |-> event, session |-> sess])
FreeIds == {u \in UserIds : \A a \in authUsers : a.id # u}
NewId == CHOOSE u \in FreeIds : \A v \in FreeIds : u <= v

----------------------------------------------------------------------------
(* AuthProvider: the effect run on mount *)

\* RecommendCrop's effect depends on [user]: it runs again when user is set
Refetch(u) ==
  /\ fetchFor' = IF route = "/recommend-crop" /\ u # NoUser THEN u ELSE fetchFor
  /\ UNCHANGED <<regVars, logVars, lastTyped, selectedFile, uploading, analyzing,
                 progress, result, farmArea, weatherData, resetTimers>>

\* (variant: a notification without a session is ignored)
onAuthStateChange_ignoreSignOut ==
  /\ notifQ # <<>>
  /\ LET n == Head(notifQ) IN
       /\ session' = IF n.session.present THEN n.session ELSE session
       /\ user' = IF n.session.present THEN SessionUser(n.session) ELSE user
       /\ loading' = FALSE
       /\ IF n.event = "SIGNED_IN" /\ SessionUser(n.session) # NoUser
            THEN /\ Len(timers) < MaxTimers
                 /\ timers' = Append(timers, SessionUser(n.session))
            ELSE timers' = timers
       /\ Refetch(SessionUser(n.session))
  /\ notifQ' = Tail(notifQ)
  /\ toast' = NoToast
  /\ UNCHANGED <<authUsers, profiles, authUid, storage, yieldRows, cropRows>>
  /\ UNCHANGED <<gsVars, route, suVars, siVars, soPc, anVars, lastCall>>

\* (variant: no profile lookup is scheduled)
onAuthStateChange_noLookup ==
  /\ notifQ # <<>>
  /\ LET n == Head(notifQ) IN
       /\ session' = n.session
       /\ user' = SessionUser(n.session)
       /\ loading' = FALSE
       /\ timers' = timers
       /\ Refetch(SessionUser(n.session))
  /\ notifQ' = Tail(notifQ)
  /\ toast' = NoToast
  /\ UNCHANGED <<authUsers, profiles, authUid, storage, yieldRows, cropRows>>
  /\ UNCHANGED <<gsVars, route, suVars, siVars, soPc, anVars, lastCall>>

\* callback of supabase.auth.onAuthStateChange
onAuthStateChange ==
  /\ notifQ # <<>>
  /\ LET n == Head(notifQ) IN
       /\ session' = n.session
       /\ user' = SessionUser(n.session)
       /\ loading' = FALSE
       /\ IF n.event = "SIGNED_IN" /\ SessionUser(n.session) # NoUser
            THEN /\ Len(timers) < MaxTimers
                 /\ timers' = Append(timers, SessionUser(n.session))
            ELSE timers' = timers
       /\ Refetch(SessionUser(n.session))
  /\ notifQ' = Tail(notifQ)
  /\ toast' = NoToast
  /\ UNCHANGED <<authUsers, profiles, authUid, storage, yieldRows, cropRows>>
  /\ UNCHANGED <<gsVars, route, suVars, siVars, soPc, anVars, lastCall>>

\* (variant: a failed lookup is reported and puts the container back to loading)
profileLookup_surfaces(outcome) ==
  /\ timers # <<>>
  /\ timers' = Tail(timers)
  /\ toast' = IF outcome = "ok" THEN NoToast ELSE "Error fetching profile"
  /\ loading' = (outcome # "ok")
  /\ UNCHANGED <<backendVars, gsVars, user, session>>
  /\ UNCHANGED <<route, pageVars, suVars, siVars, soPc, anVars, lastCall>>

\* the setTimeout(..., 0) callback: the profile lookup settles (a row, no row,
\* an error value or a throw); its result is only logged
profileLookup(outcome) ==
  /\ timers # <<>>
  /\ timers' = Tail(timers)
  /\ toast' = NoToast
  /\ UNCHANGED <<backendVars, gsVars, user, session, loading>>
  /\ UNCHANGED <<route, pageVars, suVars, siVars, soPc, anVars, lastCall>>

\* supabase.auth.getSession() reads the current session ...
getSessionRead ==
  /\ gsState = "pending"
  /\ gsState' = "read"
  /\ gsResult' = BackendSession
  /\ toast' = NoToast
  /\ UNCHANGED <<backendVars, sessVars>>
  /\ UNCHANGED <<route, pageVars, suVars, siVars, soPc, anVars, lastCall>>

\* ... and its .then callback runs
getSessionThen ==
  /\ gsState = "read"
  /\ gsState' = "done"
  /\ session' = gsResult
  /\ user' = SessionUser(gsResult)
  /\ loading' = FALSE
  /\ Refetch(SessionUser(gsResult))
  /\ toast' = NoToast
  /\ UNCHANGED <<backendVars, gsResult, timers>>
  /\ UNCHANGED <<route, suVars, siVars, soPc, anVars, lastCall>>

----------------------------------------------------------------------------
(* Register page *)
Null == <<"NULL">>                       \* the null of a text value
OrNull(s) == IF s = <<>> THEN Null ELSE s          \* s || null
NoArgs == <<>>
NoError == "null"
NoAccount == "No account found with this mobile number"
Returned(call, error) == [call |-> call, error |-> error]

\* (variant: non-digits are not removed)
mobileOnChange_noStrip(text) == Slice0(text, MobileLen)

\* the contact-number input's onChange
mobileOnChange(text) == Slice0(StripNonDigits(text), MobileLen)

RegisterHandleChange(field, value) ==
  /\ route = "/register"
  /\ formData' = [formData EXCEPT ![field] = value]
  /\ toast' = NoToast
  /\ UNCHANGED <<regErrors, logVars, lastTyped, featVars>>
  /\ UNCHANGED <<backendVars, gsVars, sessVars, route, suVars, siVars, soPc, anVars, lastCall>>

RegisterMobileChange(text) ==
  /\ route = "/register"
  /\ formData' = [formData EXCEPT !.mobileNumber = mobileOnChange(text)]
  /\ lastTyped' = text
  /\ toast' = NoToast
  /\ UNCHANGED <<regErrors, logVars, featVars>>
  /\ UNCHANGED <<backendVars, gsVars, sessVars, route, suVars, siVars, soPc, anVars, lastCall>>

\* (variant: the farm area is not looked at)
RegisterIsFormValid_noArea(fd) ==
  /\ Len(Trim(fd.name)) >= NameMin
  /\ Len(fd.mobileNumber) = MobileLen
  /\ Len(fd.password) >= PasswordMin

\* isFormValid: the submit button is disabled unless it holds (and while loading)
RegisterIsFormValid(fd) ==
  /\ Len(Trim(fd.name)) >= NameMin
  /\ Len(fd.mobileNumber) = MobileLen
  /\ Len(fd.password) >= PasswordMin
  /\ Positive(parseFloat(fd.farmArea))

\* handleSubmit: validateForm(), then signUp(...) up to its first await
RegisterHandleSubmit ==
  /\ route = "/register"
  /\ suPc = "idle"
  /\ LET issues == registerSchema(formData) IN
       IF issues = <<>>
         THEN /\ regErrors' = NoErrors
              /\ loading' = TRUE
              /\ suPc' = "auth"
              /\ suArgs' = [email |-> EmailOf(formData.mobileNumber),
                            password |-> formData.password,
                            name |-> Trim(formData.name),
                            mobileNumber |-> formData.mobileNumber,
                            surveyNumber |-> OrNull(Trim(formData.surveyNumber)),
                            farmArea |-> formData.farmArea]
         ELSE /\ regErrors' = newErrors(issues)
              /\ UNCHANGED <<loading, suPc, suArgs>>
  /\ toast' = NoToast
  /\ UNCHANGED <<backendVars, gsVars, user, session, timers>>
  /\ UNCHANGED <<route, formData, logVars, lastTyped, featVars>>
  /\ UNCHANGED <<suUser, siVars, soPc, anVars, lastCall>>

\* the submit button: disabled={!isFormValid || loading}
RegisterSubmitClick ==
  /\ RegisterIsFormValid(formData)
  /\ ~loading
  /\ RegisterHandleSubmit

\* (variant: handleSubmit navigates whatever signUp returned)
SignUpReturn_alwaysNavigate(error, title) ==
  /\ loading' = FALSE
  /\ suPc' = "idle"
  /\ suArgs' = NoArgs
  /\ suUser' = NoUser
  /\ toast' = title
  /\ lastCall' = Returned("signUp", error)
  /\ GoTo("/login")
  /\ UNCHANGED <<siVars, soPc, anPc, anArgs>>

\* signUp returns (finally: setLoading(false)); handleSubmit navigates when
\* there is no error
SignUpReturn(error, title) ==
  /\ loading' = FALSE
  /\ suPc' = "idle"
  /\ suArgs' = NoArgs
  /\ suUser' = NoUser
  /\ toast' = title
  /\ lastCall' = Returned("signUp", error)
  /\ IF error # NoError THEN Stay ELSE GoTo("/login")
  /\ UNCHANGED <<siVars, soPc, anPc, anArgs>>

\* (variant: the error of the account creation is not examined)
SignUpAuthResponse_ignoresError(outcome) ==
  /\ suPc = "auth"
  /\ CASE outcome = "throw" ->
            /\ SignUpReturn("thrown", "Registration Error")
            /\ UNCHANGED <<authUsers, authUid, notifQ>>
       [] outcome \in {"error", "nouser"} ->
            /\ suPc' = "insert"
            /\ toast' = NoToast
            /\ Stay
            /\ UNCHANGED <<authUsers, authUid, notifQ>>
            /\ UNCHANGED <<loading, suArgs, suUser, siVars, soPc, anPc, anArgs, lastCall>>
       [] outcome = "ok" ->
            /\ \A a \in authUsers : a.email # suArgs.email
            /\ FreeIds # {}
            /\ Len(notifQ) < MaxPending
            /\ authUsers' = authUsers \cup
                 {[id |-> NewId, email |-> suArgs.email, password |-> suArgs.password]}
            /\ authUid' = NewId
            /\ Notify("SIGNED_IN", SessionOf(NewId))
            /\ suUser' = NewId
            /\ suPc' = "insert"
            /\ toast' = NoToast
            /\ Stay
            /\ UNCHANGED <<loading, suArgs, siVars, soPc, anPc, anArgs, lastCall>>
  /\ UNCHANGED <<profiles, storage, yieldRows, cropRows, gsVars, user, session, timers>>

\* supabase.auth.signUp({email, password, ...}) settles
SignUpAuthResponse(outcome) ==
  /\ suPc = "auth"
  /\ CASE outcome = "throw" ->
            /\ SignUpReturn("thrown", "Registration Error")
            /\ UNCHANGED <<authUsers, authUid, notifQ>>
       [] outcome = "error" ->
            /\ SignUpReturn("authError", "Registration Error")
            /\ UNCHANGED <<authUsers, authUid, notifQ>>
       [] outcome = "nouser" ->
            /\ SignUpReturn(NoError, NoToast)
            /\ UNCHANGED <<authUsers, authUid, notifQ>>
       [] outcome = "ok" ->
            /\ \A a \in authUsers : a.email # suArgs.email
            /\ FreeIds # {}
            /\ Len(notifQ) < MaxPending
            /\ authUsers' = authUsers \cup
                 {[id |-> NewId, email |-> suArgs.email, password |-> suArgs.password]}
            /\ authUid' = NewId
            /\ Notify("SIGNED_IN", SessionOf(NewId))
            /\ suUser' = NewId
            /\ suPc' = "insert"
            /\ toast' = NoToast
            /\ Stay
            /\ UNCHANGED <<loading, suArgs, siVars, soPc, anPc, anArgs, lastCall>>
  /\ UNCHANGED <<profiles, storage, yieldRows, cropRows, gsVars, user, session, timers>>

\* supabase.from('profiles').insert({...}) settles
SignUpProfileResponse(outcome) ==
  /\ suPc = "insert"
  /\ LET row == ProfileRow(suUser, suArgs.name, suArgs.mobileNumber,
                           OrNull(suArgs.surveyNumber), parseFloat(suArgs.farmArea))
     IN CASE outcome = "throw" ->
               /\ SignUpReturn("thrown", "Registration Error")
               /\ UNCHANGED profiles
          [] outcome = "error" ->
               /\ SignUpReturn(NoError, "Profile Creation Error")
               /\ UNCHANGED profiles
          [] outcome = "ok" ->
               /\ ProfileInsertAllowed(row)
               /\ profiles' = profiles \cup {row}
               /\ SignUpReturn(NoError, "Registration Successful!")
  /\ UNCHANGED <<authUsers, authUid, notifQ, storage, yieldRows, cropRows>>
  /\ UNCHANGED <<gsVars, user, session, timers>>

----------------------------------------------------------------------------
(* Login page *)
LoginMobileChange(text) ==
  /\ route = "/login"
  /\ mobileNumber' = mobileOnChange(text)
  /\ lastTyped' = text
  /\ toast' = NoToast
  /\ UNCHANGED <<regVars, password, logErrors, featVars>>
  /\ UNCHANGED <<backendVars, gsVars, sessVars, route, suVars, siVars, soPc, anVars, lastCall>>

LoginPasswordChange(value) ==
  /\ route = "/login"
  /\ password' = value
  /\ toast' = NoToast
  /\ UNCHANGED <<regVars, mobileNumber, logErrors, lastTyped, featVars>>
  /\ UNCHANGED <<backendVars, gsVars, sessVars, route, suVars, siVars, soPc, anVars, lastCall>>

LoginIsFormValid(m, p) == Len(m) = MobileLen /\ Len(p) >= PasswordMin

\* handleSubmit: validateForm(), then signIn(...) up to its first await
LoginHandleSubmit ==
  /\ route = "/login"
  /\ siPc = "idle"
  /\ LET issues == loginSchema(mobileNumber, password) IN
       IF issues = <<>>
         THEN /\ logErrors' = NoErrors
              /\ loading' = TRUE
              /\ siPc' = "lookup"
              /\ siArgs' = [mobile |-> mobileNumber, password |-> password]
         ELSE /\ logErrors' = newErrors(issues)
              /\ UNCHANGED <<loading, siPc, siArgs>>
  /\ toast' = NoToast
  /\ UNCHANGED <<backendVars, gsVars, user, session, timers>>
  /\ UNCHANGED <<route, regVars, mobileNumber, password, lastTyped, featVars>>
  /\ UNCHANGED <<suVars, soPc, anVars, lastCall>>

\* the submit button: disabled={!isFormValid || loading}
LoginSubmitClick ==
  /\ LoginIsFormValid(mobileNumber, password)
  /\ ~loading
  /\ LoginHandleSubmit

\* (variant: the finally block does not reset loading)
SignInReturn_keepsLoading(error, title) ==
  /\ loading' = loading
  /\ siPc' = "idle"
  /\ siArgs' = NoArgs
  /\ toast' = title
  /\ lastCall' = Returned("signIn", error)
  /\ IF error # NoError THEN Stay ELSE GoTo("/")
  /\ UNCHANGED <<suVars, soPc, anPc, anArgs>>

\* signIn returns (finally: setLoading(false)); handleSubmit navigates when
\* there is no error
SignInReturn(error, title) ==
  /\ loading' = FALSE
  /\ siPc' = "idle"
  /\ siArgs' = NoArgs
  /\ toast' = title
  /\ lastCall' = Returned("signIn", error)
  /\ IF error # NoError THEN Stay ELSE GoTo("/")
  /\ UNCHANGED <<suVars, soPc, anPc, anArgs>>

\* (variant: the password check is issued whatever the lookup returned)
SignInLookupResponse_noRowCheck(outcome) ==
  /\ siPc = "lookup"
  /\ CASE outcome = "throw" -> SignInReturn("thrown", "Login Error")
       [] outcome = "error" -> SignInReturn(NoAccount, "Login Error") \* data: null
       [] outcome = "ok" ->
            IF Cardinality(ProfileByMobile(siArgs.mobile)) \in {0, 1}
              THEN /\ siPc' = "password"
                   /\ toast' = NoToast
                   /\ Stay
                   /\ UNCHANGED <<loading, suVars, siArgs, soPc, anPc, anArgs, lastCall>>
              ELSE SignInReturn(NoAccount, "Login Error")             \* .single(): no row
  /\ UNCHANGED <<backendVars, gsVars, user, session, timers>>

\* the profiles lookup by mobile_number settles
SignInLookupResponse(outcome) ==
  /\ siPc = "lookup"
  /\ CASE outcome = "throw" -> SignInReturn("thrown", "Login Error")
       [] outcome = "error" -> SignInReturn(NoAccount, "Login Error") \* data: null
       [] outcome = "ok" ->
            IF Cardinality(ProfileByMobile(siArgs.mobile)) = 1
              THEN /\ siPc' = "password"
                   /\ toast' = NoToast
                   /\ Stay
                   /\ UNCHANGED <<loading, suVars, siArgs, soPc, anPc, anArgs, lastCall>>
              ELSE SignInReturn(NoAccount, "Login Error")             \* .single(): no row
  /\ UNCHANGED <<backendVars, gsVars, user, session, timers>>

\* supabase.auth.signInWithPassword({email, password}) settles
SignInPasswordResponse(outcome) ==
  /\ siPc = "password"
  /\ CASE outcome = "throw" ->
            /\ SignInReturn("thrown", "Login Error")
            /\ UNCHANGED <<authUid, notifQ>>
       [] outcome = "error" ->
            /\ SignInReturn("authError", "Login Error")
            /\ UNCHANGED <<authUid, notifQ>>
       [] outcome = "ok" ->
            /\ Len(notifQ) < MaxPending
            /\ \E a \in authUsers :
                 /\ a.email = SignInEmail(siArgs.mobile)
                 /\ a.password = siArgs.password
                 /\ authUid' = a.id
                 /\ Notify("SIGNED_IN", SessionOf(a.id))
            /\ SignInReturn(NoError, "Login Successful!")
  /\ UNCHANGED <<authUsers, profiles, storage, yieldRows, cropRows>>
  /\ UNCHANGED <<gsVars, user, session, timers>>

----------------------------------------------------------------------------
(* Navbar: the Sign Out item, rendered when user is set *)
NavbarHandleSignOut_clears ==          \* (variant: signOut clears the user itself)
  /\ user # NoUser
  /\ soPc = "idle"
  /\ loading' = TRUE
  /\ soPc' = "signOut"
  /\ user' = NoUser
  /\ session' = NoSession
  /\ toast' = NoToast
  /\ UNCHANGED <<backendVars, gsVars, timers>>
  /\ UNCHANGED <<route, pageVars, suVars, siVars, anVars, lastCall>>

NavbarHandleSignOut ==
  /\ user # NoUser
  /\ soPc = "idle"
  /\ loading' = TRUE
  /\ soPc' = "signOut"
  /\ toast' = NoToast
  /\ UNCHANGED <<backendVars, gsVars, user, session, timers>>
  /\ UNCHANGED <<route, pageVars, suVars, siVars, anVars, lastCall>>

\* supabase.auth.signOut() settles; signOut ignores the value it resolves
\* with; handleSignOut then navigates to '/'
SignOutResponse(outcome) ==
  /\ soPc = "signOut"
  /\ CASE outcome = "throw" ->
            /\ toast' = "Error signing out"
            /\ UNCHANGED <<authUid, notifQ>>
       [] outcome = "error" ->
            /\ toast' = "Signed out successfully"
            /\ UNCHANGED <<authUid, notifQ>>
       [] outcome = "ok" ->
            /\ Len(notifQ) < MaxPending
            /\ authUid' = NoUser
            /\ Notify("SIGNED_OUT", NoSession)
            /\ toast' = "Signed out successfully"
  /\ loading' = FALSE
  /\ soPc' = "idle"
  /\ lastCall' = Returned("signOut", IF outcome = "ok" THEN NoError ELSE outcome)
  /\ GoTo("/")
  /\ UNCHANGED <<authUsers, profiles, storage, yieldRows, cropRows>>
  /\ UNCHANGED <<gsVars, user, session, timers, suVars, siVars, anPc, anArgs>>

----------------------------------------------------------------------------
(* Feature pages: PredictYield and RecommendCrop *)

\* Number.prototype.toString of a decimal value
RECURSIVE NatToString(_)
NatToString(n) ==
  IF n < 10 THEN <<DigitChars[n + 1]>> ELSE NatToString(n \div 10) \o <<DigitChars[(n % 10) + 1]>>
RECURSIVE Pow10(_)
Pow10(k) == IF k = 0 THEN 1 ELSE 10 * Pow10(k - 1)
RECURSIVE FracDigits(_, _)
FracDigits(f, k) ==       \* the k-digit fraction f, without trailing zeros
  IF f = 0 THEN <<>>
  ELSE <<DigitChars[(f \div Pow10(k - 1)) + 1]>> \o FracDigits(f % Pow10(k - 1), k - 1)
NumToString(x) ==
  IF x.nan THEN <<"N", "a", "N">>
  ELSE LET a == IF x.mant < 0 THEN 0 - x.mant ELSE x.mant
           frac == FracDigits(a % Pow10(x.scale), x.scale)
       IN (IF x.mant < 0 THEN <<"-">> ELSE <<>>)
          \o NatToString(a \div Pow10(x.scale))
          \o (IF frac = <<>> THEN <<>> ELSE <<".">> \o frac)

\* (variant: a file of exactly the maximum size is refused)
TooLarge_strict(file) == file.size >= MaxFileSize
\* file.size > 5 * 1024 * 1024
TooLarge(file) == file.size > MaxFileSize

\* (variant: the previous result is dropped before the file is examined)
handleFileSelect_clearsFirst(file) ==
  /\ route \in FeatureRoutes
  /\ user # NoUser
  /\ result' = NoResult
  /\ IF file.type \notin AllowedTypes
       THEN /\ toast' = "Invalid File Type"
            /\ UNCHANGED selectedFile
       ELSE IF TooLarge(file)
         THEN /\ toast' = "File Too Large"
              /\ UNCHANGED selectedFile
         ELSE /\ selectedFile' = file
              /\ toast' = NoToast
  /\ UNCHANGED <<regVars, logVars, lastTyped, uploading, analyzing, progress,
                 farmArea, weatherData, fetchFor, resetTimers>>
  /\ UNCHANGED <<backendVars, gsVars, sessVars, route, suVars, siVars, soPc, anVars, lastCall>>

\* the file input's onChange; the page renders the input only for a user
handleFileSelect(file) ==
  /\ route \in FeatureRoutes
  /\ user # NoUser
  /\ IF file.type \notin AllowedTypes
       THEN /\ toast' = "Invalid File Type"
            /\ UNCHANGED <<selectedFile, result>>
       ELSE IF TooLarge(file)
         THEN /\ toast' = "File Too Large"
              /\ UNCHANGED <<selectedFile, result>>
         ELSE /\ selectedFile' = file
              /\ result' = NoResult
              /\ toast' = NoToast
  /\ UNCHANGED <<regVars, logVars, lastTyped, uploading, analyzing, progress,
                 farmArea, weatherData, fetchFor, resetTimers>>
  /\ UNCHANGED <<backendVars, gsVars, sessVars, route, suVars, siVars, soPc, anVars, lastCall>>

\* fetchUserData settles: the profile's farm_area, then the mock weather
FetchUserDataResponse(outcome) ==
  /\ route = "/recommend-crop"
  /\ fetchFor # NoUser
  /\ fetchFor' = NoUser
  /\ CASE outcome = "throw" -> UNCHANGED <<farmArea, weatherData>>
       [] outcome = "error" -> /\ weatherData' = TRUE
                               /\ UNCHANGED farmArea
       [] outcome = "ok" ->
            /\ weatherData' = TRUE
            /\ farmArea' = IF Cardinality(ProfileByUser(fetchFor)) = 1
                             THEN NumToString((CHOOSE q \in ProfileByUser(fetchFor) : TRUE).farm_area)
                             ELSE farmArea
  /\ toast' = NoToast
  /\ UNCHANGED <<regVars, logVars, lastTyped, selectedFile, uploading, analyzing,
                 progress, result, resetTimers>>
  /\ UNCHANGED <<backendVars, gsVars, sessVars, route, suVars, siVars, soPc, anVars, lastCall>>

\* handleAnalysis up to its first await
handleAnalysis ==
  /\ route \in FeatureRoutes
  /\ anPc = "idle"
  /\ IF selectedFile = NoFile \/ user = NoUser
        \/ (route = "/recommend-crop" /\ ~weatherData)
       THEN /\ toast' = "Error"
            /\ UNCHANGED <<uploading, analyzing, progress, anVars>>
       ELSE /\ toast' = NoToast
            /\ uploading' = (route = "/predict-yield")
            /\ analyzing' = (route = "/recommend-crop")
            /\ progress' = IF route = "/predict-yield" THEN 10 ELSE 20
            /\ anPc' = "upload"
            /\ anArgs' = [page |-> route, user |-> user, file |-> selectedFile,
                          stamp |-> Len(storage) + 1, farmArea |-> farmArea]
            /\ anDetached' = FALSE
  /\ UNCHANGED <<regVars, logVars, lastTyped, selectedFile, result,
                 farmArea, weatherData, fetchFor, resetTimers>>
  /\ UNCHANGED <<backendVars, gsVars, sessVars, route, suVars, siVars, soPc, lastCall>>

\* the analyse button: disabled={!selectedFile || uploading || analyzing}
AnalyseClick ==
  /\ user # NoUser
  /\ selectedFile # NoFile
  /\ ~uploading
  /\ ~analyzing
  /\ handleAnalysis

\* state writes of a run reach the page only while it is still mounted
Written(new, old) == IF anDetached THEN old ELSE new

\* finally { setUploading(false); setAnalyzing(false); setTimeout(reset, 1000) }
AnalysisFinally ==
  /\ anDetached \/ resetTimers < MaxResets
  /\ uploading' = Written(FALSE, uploading)
  /\ analyzing' = Written(FALSE, analyzing)
  /\ resetTimers' = Written(resetTimers + 1, resetTimers)
  /\ anPc' = "idle"
  /\ anArgs' = NoArgs
  /\ anDetached' = FALSE

\* (variant: the bucket accepts an upload into any folder)
UploadPolicy_open(bucket, folder) == bucket = "soil-reports"
\* policy "Users can upload their own soil reports"
UploadPolicy(bucket, folder) == bucket = "soil-reports" /\ authUid = folder

\* (variant: uploadError is not examined)
UploadResponse_ignoresError(outcome) ==
  /\ anPc = "upload"
  /\ IF outcome # "throw"
       THEN /\ outcome = "ok" => UploadPolicy("soil-reports", anArgs.user)
            /\ outcome = "ok" => Len(storage) < MaxRows
            /\ storage' = IF outcome = "ok"
                            THEN Append(storage, [folder |-> anArgs.user, name |-> anArgs.stamp])
                            ELSE storage
            /\ progress' = Written(IF anArgs.page = "/predict-yield" THEN 40 ELSE 50, progress)
            /\ uploading' = Written(FALSE, uploading)
            /\ analyzing' = Written(TRUE, analyzing)
            /\ anPc' = "analysis"
            /\ toast' = NoToast
            /\ UNCHANGED <<anArgs, anDetached, resetTimers>>
       ELSE /\ toast' = "Analysis Failed"
            /\ AnalysisFinally
            /\ UNCHANGED <<storage, progress>>
  /\ UNCHANGED <<regVars, logVars, lastTyped, selectedFile, result, farmArea, weatherData, fetchFor>>
  /\ UNCHANGED <<authUsers, profiles, authUid, notifQ, yieldRows, cropRows>>
  /\ UNCHANGED <<gsVars, sessVars, route, suVars, siVars, soPc, lastCall>>

\* supabase.storage.from('soil-reports').upload(fileName, selectedFile) settles
UploadResponse(outcome) ==
  /\ anPc = "upload"
  /\ IF outcome = "ok"
       THEN /\ UploadPolicy("soil-reports", anArgs.user)
            /\ Len(storage) < MaxRows
            /\ storage' = Append(storage, [folder |-> anArgs.user, name |-> anArgs.stamp])
            /\ progress' = Written(IF anArgs.page = "/predict-yield" THEN 40 ELSE 50, progress)
            /\ uploading' = Written(FALSE, uploading)
            /\ analyzing' = Written(TRUE, analyzing)
            /\ anPc' = "analysis"
            /\ toast' = NoToast
            /\ UNCHANGED <<anArgs, anDetached, resetTimers>>
       ELSE /\ toast' = "Analysis Failed"
            /\ AnalysisFinally
            /\ UNCHANGED <<storage, progress>>
  /\ UNCHANGED <<regVars, logVars, lastTyped, selectedFile, result, farmArea, weatherData, fetchFor>>
  /\ UNCHANGED <<authUsers, profiles, authUid, notifQ, yieldRows, cropRows>>
  /\ UNCHANGED <<gsVars, sessVars, route, suVars, siVars, soPc, lastCall>>

\* simulateAnalysis: the timer resolves; the insert is issued
AnalysisTimer ==
  /\ anPc = "analysis"
  /\ progress' = Written(IF anArgs.page = "/predict-yield" THEN 80 ELSE 90, progress)
  /\ anPc' = "insert"
  /\ toast' = NoToast
  /\ UNCHANGED <<regVars, logVars, lastTyped, selectedFile, uploading, analyzing, result,
                 farmArea, weatherData, fetchFor, resetTimers>>
  /\ UNCHANGED <<backendVars, gsVars, sessVars, route, suVars, siVars, soPc,
                 anArgs, anDetached, lastCall>>

\* policies "Users can insert their own predictions / recommendations", and
\* the tables' constraints
\* (variant: the tables accept a row of any owner)
ResultInsertPolicy_open(row) == TRUE
ResultInsertPolicy(row) == authUid = row.user_id
YieldConstraints(row) == \E a \in authUsers : a.id = row.user_id   \* REFERENCES auth.users
CropConstraints(row) ==
  /\ \E a \in authUsers : a.id = row.user_id                       \* REFERENCES auth.users
  /\ ~row.farm_area.nan                                            \* NOT NULL
\* file_url: `${user.id}/${Date.now()}.${fileExt}`, a name no stored object has
YieldRow == [user_id |-> anArgs.user, file_url |-> <<anArgs.user, anArgs.stamp>>]
CropRow == [user_id |-> anArgs.user, weather_data |-> TRUE,
            farm_area |-> parseFloat(anArgs.farmArea)]

\* (variant: the insert replaces the rows stored before)
InsertResponse_replaces(outcome) ==
  /\ anPc = "insert"
  /\ LET row == IF anArgs.page = "/predict-yield" THEN YieldRow ELSE CropRow IN
     CASE outcome = "throw" ->
            /\ toast' = "Analysis Failed"
            /\ UNCHANGED <<yieldRows, cropRows, progress, result>>
       [] outcome = "error" ->
            /\ toast' = "Analysis Complete!"
            /\ progress' = Written(100, progress)
            /\ result' = Written(MockResult, result)
            /\ UNCHANGED <<yieldRows, cropRows>>
       [] outcome = "ok" ->
            /\ ResultInsertPolicy(row)
            /\ IF anArgs.page = "/predict-yield"
                 THEN /\ YieldConstraints(row)
                      /\ yieldRows' = <<row>>
                      /\ UNCHANGED cropRows
                 ELSE /\ CropConstraints(row)
                      /\ cropRows' = <<row>>
                      /\ UNCHANGED yieldRows
            /\ toast' = "Analysis Complete!"
            /\ progress' = Written(100, progress)
            /\ result' = Written(MockResult, result)
  /\ AnalysisFinally
  /\ UNCHANGED <<regVars, logVars, lastTyped, selectedFile, farmArea, weatherData, fetchFor>>
  /\ UNCHANGED <<authUsers, profiles, authUid, notifQ, storage>>
  /\ UNCHANGED <<gsVars, sessVars, route, suVars, siVars, soPc, lastCall>>

\* (variant: dbError is thrown to the catch block)
InsertResponse_throwsDbError(outcome) ==
  /\ anPc = "insert"
  /\ LET row == IF anArgs.page = "/predict-yield" THEN YieldRow ELSE CropRow IN
     CASE outcome = "throw" ->
            /\ toast' = "Analysis Failed"
            /\ UNCHANGED <<yieldRows, cropRows, progress, result>>
       [] outcome = "error" ->
            /\ toast' = "Analysis Failed"
            /\ UNCHANGED <<yieldRows, cropRows, progress, result>>
       [] outcome = "ok" ->
            /\ ResultInsertPolicy(row)
            /\ IF anArgs.page = "/predict-yield"
                 THEN /\ YieldConstraints(row)
                      /\ Len(yieldRows) < MaxRows
                      /\ yieldRows' = Append(yieldRows, row)
                      /\ UNCHANGED cropRows
                 ELSE /\ CropConstraints(row)
                      /\ Len(cropRows) < MaxRows
                      /\ cropRows' = Append(cropRows, row)
                      /\ UNCHANGED yieldRows
            /\ toast' = "Analysis Complete!"
            /\ progress' = Written(100, progress)
            /\ result' = Written(MockResult, result)
  /\ AnalysisFinally
  /\ UNCHANGED <<regVars, logVars, lastTyped, selectedFile, farmArea, weatherData, fetchFor>>
  /\ UNCHANGED <<authUsers, profiles, authUid, notifQ, storage>>
  /\ UNCHANGED <<gsVars, sessVars, route, suVars, siVars, soPc, lastCall>>

\* the insert into yield_predictions / crop_recommendations settles
InsertResponse(outcome) ==
  /\ anPc = "insert"
  /\ LET row == IF anArgs.page = "/predict-yield" THEN YieldRow ELSE CropRow IN
     CASE outcome = "throw" ->
            /\ toast' = "Analysis Failed"
            /\ UNCHANGED <<yieldRows, cropRows, progress, result>>
       [] outcome = "error" ->
            /\ toast' = "Analysis Complete!"
            /\ progress' = Written(100, progress)
            /\ result' = Written(MockResult, result)
            /\ UNCHANGED <<yieldRows, cropRows>>
       [] outcome = "ok" ->
            /\ ResultInsertPolicy(row)
            /\ IF anArgs.page = "/predict-yield"
                 THEN /\ YieldConstraints(row)
                      /\ Len(yieldRows) < MaxRows
                      /\ yieldRows' = Append(yieldRows, row)
                      /\ UNCHANGED cropRows
                 ELSE /\ CropConstraints(row)
                      /\ Len(cropRows) < MaxRows
                      /\ cropRows' = Append(cropRows, row)
                      /\ UNCHANGED yieldRows
            /\ toast' = "Analysis Complete!"
            /\ progress' = Written(100, progress)
            /\ result' = Written(MockResult, result)
  /\ AnalysisFinally
  /\ UNCHANGED <<regVars, logVars, lastTyped, selectedFile, farmArea, weatherData, fetchFor>>
  /\ UNCHANGED <<authUsers, profiles, authUid, notifQ, storage>>
  /\ UNCHANGED <<gsVars, sessVars, route, suVars, siVars, soPc, lastCall>>

\* setTimeout(() => setProgress(0), 1000) fires
ProgressReset ==
  /\ resetTimers > 0
  /\ resetTimers' = resetTimers - 1
  /\ progress' = 0
  /\ toast' = NoToast
  /\ UNCHANGED <<regVars, logVars, lastTyped, selectedFile, uploading, analyzing, result,
                 farmArea, weatherData, fetchFor>>
  /\ UNCHANGED <<backendVars, gsVars, sessVars, route, suVars, siVars, soPc, anVars, lastCall>>

----------------------------------------------------------------------------
(* The application, started on the home page with an empty backend *)
InitBackend ==
  /\ authUsers = {}
  /\ profiles = {}
  /\ authUid = NoUser
  /\ notifQ = <<>>
  /\ storage = <<>>
  /\ yieldRows = <<>>
  /\ cropRows = <<>>

InitContainer ==
  /\ gsState = "pending"
  /\ gsResult = NoSession
  /\ user = NoUser
  /\ session = NoSession
  /\ loading = TRUE
  /\ timers = <<>>

InitPages ==
  /\ formData = EmptyForm
  /\ regErrors = NoErrors
  /\ mobileNumber = <<>>
  /\ password = <<>>
  /\ logErrors = NoErrors
  /\ lastTyped = <<>>
  /\ selectedFile = NoFile
  /\ uploading = FALSE
  /\ analyzing = FALSE
  /\ progress = 0
  /\ result = NoResult
  /\ farmArea = <<>>
  /\ weatherData = FALSE
  /\ fetchFor = NoUser
  /\ resetTimers = 0

InitCalls ==
  /\ toast = NoToast
  /\ suPc = "idle"
  /\ suArgs = NoArgs
  /\ suUser = NoUser
  /\ siPc = "idle"
  /\ siArgs = NoArgs
  /\ soPc = "idle"
  /\ anPc = "idle"
  /\ anArgs = NoArgs
  /\ anDetached = FALSE
  /\ lastCall = Returned("none", NoError)

Init ==
  /\ InitBackend
  /\ InitContainer
  /\ InitPages
  /\ InitCalls
  /\ route = "/"

Outcomes == {"ok", "error", "throw"}

AuthNext ==
  \/ onAuthStateChange
  \/ \E o \in Outcomes : profileLookup(o)
  \/ \E o \in Outcomes \cup {"nouser"} : SignUpAuthResponse(o)
  \/ \E o \in Outcomes : SignUpProfileResponse(o)
  \/ \E o \in Outcomes : SignInLookupResponse(o)
  \/ \E o \in Outcomes : SignInPasswordResponse(o)

Next ==
  \/ AuthNext
  \/ getSessionRead
  \/ getSessionThen
  \/ \E r \in AuthRoutes : Navigate(r)
  \/ \E f \in Fields : \E v \in Samples(f) : RegisterHandleChange(f, v)
  \/ \E t \in TypedSamples : RegisterMobileChange(t)
  \/ RegisterSubmitClick
  \/ \E t \in TypedSamples : LoginMobileChange(t)
  \/ \E v \in LoginPasswordSamples : LoginPasswordChange(v)
  \/ LoginSubmitClick
  \/ NavbarHandleSignOut
  \/ \E o \in Outcomes : SignOutResponse(o)

Spec == Init /\ [][Next]_vars

\* Every awaited backend call of signUp, signIn and signOut settles (it
\* resolves with data, resolves with an error, or rejects)
CallSettles ==
  /\ WF_vars(\E o \in Outcomes \cup {"nouser"} : SignUpAuthResponse(o))
  /\ WF_vars(\E o \in Outcomes : SignUpProfileResponse(o))
  /\ WF_vars(\E o \in Outcomes : SignInLookupResponse(o))
  /\ WF_vars(\E o \in Outcomes : SignInPasswordResponse(o))
  /\ WF_vars(\E o \in Outcomes : SignOutResponse(o))


----------------------------------------------------------------------------
(* The application with one account registered (name Ravi, contact M1), as
   left by a registration: signed in, or signed out again. *)
RaviAccount == [id |-> 1, email |-> EmailOf(M1), password |-> Secret1]
RaviProfile == ProfileRow(1, Ravi, M1, Null, parseFloat(Area25))

Registered(withProfile, uid) ==
  /\ authUsers = {RaviAccount}
  /\ profiles = IF withProfile THEN {RaviProfile} ELSE {}
  /\ authUid = uid
  /\ notifQ = <<>>
  /\ storage = <<>>
  /\ yieldRows = <<>>
  /\ cropRows = <<>>

Settled ==
  /\ gsState = "done"
  /\ gsResult = BackendSession
  /\ user = authUid
  /\ session = BackendSession
  /\ loading = FALSE
  /\ timers = <<>>

----------------------------------------------------------------------------
(* Form submission: handleSubmit applied to a form drawn from the inputs *)
SurveyInputs == {<<>>, <<"4", "2">>}

InitForms ==
  /\ \/ InitBackend
     \/ \E uid \in {NoUser, 1} : Registered(TRUE, uid)
  /\ Settled
  /\ InitCalls
  /\ selectedFile = NoFile /\ uploading = FALSE /\ analyzing = FALSE /\ progress = 0
  /\ result = NoResult /\ farmArea = <<>> /\ weatherData = FALSE
  /\ fetchFor = NoUser /\ resetTimers = 0
  /\ regErrors = NoErrors
  /\ logErrors = NoErrors
  /\ \/ /\ route = "/register"
        /\ formData \in [name : NameInputs, mobileNumber : MobileInputs,
                         password : PasswordInputs, surveyNumber : SurveyInputs,
                         farmArea : AreaInputs]
        /\ lastTyped = formData.mobileNumber
        /\ mobileNumber = <<>>
        /\ password = <<>>
     \/ /\ route = "/login"
        /\ formData = EmptyForm
        /\ mobileNumber \in MobileInputs
        /\ password \in PasswordInputs
        /\ lastTyped = mobileNumber

NextForms ==
  \/ AuthNext
  \/ RegisterHandleSubmit
  \/ LoginHandleSubmit

SpecForms == InitForms /\ [][NextForms]_vars

\* The three context calls from a settled container, each awaited call settling
NextCalls ==
  \/ NextForms
  \/ NavbarHandleSignOut
  \/ \E o \in Outcomes : SignOutResponse(o)

SpecCalls == InitForms /\ [][NextCalls]_vars /\ CallSettles

----------------------------------------------------------------------------
(* Typing into the contact-number input: the text of a change event is the
   input's value with characters inserted or one character removed *)
TypeAlphabet == {"1", "2", "-"}
Chunks == UNION {[1..k -> TypeAlphabet] : k \in 1..MaxPaste}
Edits(v) ==
  {SubSeq(v, 1, i) \o c \o SubSeq(v, i + 1, Len(v)) : i \in 0..Len(v), c \in Chunks}
  \cup {SubSeq(v, 1, i - 1) \o SubSeq(v, i + 1, Len(v)) : i \in 1..Len(v)}

InitTyping ==
  /\ InitBackend
  /\ InitContainer
  /\ InitPages
  /\ InitCalls
  /\ route \in {"/register", "/login"}

NextTyping ==
  \/ \E t \in Edits(formData.mobileNumber) : RegisterMobileChange(t)
  \/ \E t \in Edits(mobileNumber) : LoginMobileChange(t)

SpecTyping == InitTyping /\ [][NextTyping]_vars

----------------------------------------------------------------------------
(* The feature pages, entered by the registered user *)
\* a registration still waiting for its profile insert (the account exists,
\* its SIGNED_IN notification was delivered)
InsertPending ==
  /\ toast = NoToast
  /\ suPc = "insert"
  /\ suArgs = [email |-> EmailOf(M1), password |-> Secret1, name |-> Ravi,
               mobileNumber |-> M1, surveyNumber |-> Null, farmArea |-> Area25]
  /\ suUser = 1
  /\ siPc = "idle"
  /\ siArgs = NoArgs
  /\ soPc = "idle"
  /\ anPc = "idle"
  /\ anArgs = NoArgs
  /\ anDetached = FALSE
  /\ lastCall = Returned("none", NoError)

InitFiles ==
  /\ \/ (\E withProfile \in BOOLEAN : Registered(withProfile, 1)) /\ InitCalls
     \/ Registered(FALSE, 1) /\ InsertPending
  /\ Settled
  /\ formData = EmptyForm /\ regErrors = NoErrors /\ mobileNumber = <<>>
  /\ password = <<>> /\ logErrors = NoErrors /\ lastTyped = <<>>
  /\ selectedFile = NoFile /\ uploading = FALSE /\ analyzing = FALSE /\ progress = 0
  /\ result = NoResult /\ farmArea = <<>> /\ weatherData = FALSE /\ resetTimers = 0
  /\ route \in FeatureRoutes
  /\ fetchFor = IF route = "/recommend-crop" THEN user ELSE NoUser

NextFiles ==
  \/ \E f \in Files : handleFileSelect(f)
  \/ \E o \in Outcomes : FetchUserDataResponse(o)
  \/ AnalyseClick
  \/ \E o \in Outcomes : UploadResponse(o)
  \/ AnalysisTimer
  \/ \E o \in Outcomes : InsertResponse(o)
  \/ ProgressReset
  \/ \E r \in FeatureRoutes \cup {"/"} : Navigate(r)
  \/ NavbarHandleSignOut
  \/ \E o \in Outcomes : SignOutResponse(o)
  \/ onAuthStateChange
  \/ \E o \in Outcomes : SignUpProfileResponse(o)

SpecFiles == InitFiles /\ [][NextFiles]_vars

----------------------------------------------------------------------------
(* The application loaded again in a browser that may still hold the session
   of the registered user *)
InitReload ==
  /\ \E withProfile \in BOOLEAN : \E uid \in {NoUser, 1} : Registered(withProfile, uid)
  /\ InitContainer
  /\ InitPages
  /\ InitCalls
  /\ route = "/"

NextReload ==
  \/ getSessionRead
  \/ getSessionThen
  \/ onAuthStateChange
  \/ \E o \in Outcomes : profileLookup(o)
  \/ \E r \in AuthRoutes : Navigate(r)
  \/ \E t \in TypedSamples : LoginMobileChange(t)
  \/ \E v \in LoginPasswordSamples : LoginPasswordChange(v)
  \/ LoginSubmitClick
  \/ \E o \in Outcomes : SignInLookupResponse(o)
  \/ \E o \in Outcomes : SignInPasswordResponse(o)
  \/ NavbarHandleSignOut
  \/ \E o \in Outcomes : SignOutResponse(o)

SpecReload == InitReload /\ [][NextReload]_vars

----------------------------------------------------------------------------
(* signUp called with an address and user data drawn from small sets, on a
   backend that may hold an account registered earlier (contact M1) *)
EarlierId == MaxUsers + 1
EarlierAccount == [id |-> EarlierId, email |-> EmailOf(M1), password |-> Secret1]
EarlierProfile == ProfileRow(EarlierId, Ravi, M1, Null, parseFloat(Area25))

InitSignUp ==
  /\ \/ InitBackend
     \/ /\ authUsers = {EarlierAccount}
        /\ profiles \in {{}, {EarlierProfile}}
        /\ authUid \in {NoUser, EarlierId}
        /\ notifQ = <<>>
        /\ storage = <<>>
        /\ yieldRows = <<>>
        /\ cropRows = <<>>
  /\ gsState = "done"
  /\ gsResult = BackendSession
  /\ user = authUid
  /\ session = BackendSession
  /\ timers = <<>>
  /\ InitPages
  /\ route = "/register"
  /\ loading = TRUE
  /\ toast = NoToast
  /\ suPc = "auth"
  /\ suArgs \in [email : {EmailOf(M1), EmailOf(M2)}, password : {Secret1},
                  name : {Ravi}, mobileNumber : {M1, M2}, surveyNumber : {Null},
                  farmArea : {Area25, <<>>}]
  /\ suUser = NoUser
  /\ siPc = "idle"
  /\ siArgs = NoArgs
  /\ soPc = "idle"
  /\ anPc = "idle"
  /\ anArgs = NoArgs
  /\ anDetached = FALSE
  /\ lastCall = Returned("none", NoError)

NextSignUp ==
  \/ \E o \in Outcomes \cup {"nouser"} : SignUpAuthResponse(o)
  \/ \E o \in Outcomes : SignUpProfileResponse(o)
  \/ onAuthStateChange
  \/ \E o \in Outcomes : profileLookup(o)
  \/ NavbarHandleSignOut
  \/ \E o \in Outcomes : SignOutResponse(o)

SpecSignUp == InitSignUp /\ [][NextSignUp]_vars

----------------------------------------------------------------------------
(* Properties *)
Quiet == notifQ = <<>> /\ gsState = "done" /\ suPc # "insert"

\* C1 (as stated): after a signIn that returned {error: null} the container
\* exposes a user and a session, and after any signOut call that has
\* completed the container's user is null (once the notifications emitted
\* are delivered and no sign-up is creating a session).
C1_AfterAnySignOut ==
  /\ (lastCall = Returned("signIn", NoError) /\ Quiet) => (user # NoUser /\ session.present)
  /\ (lastCall.call = "signOut" /\ Quiet) => user = NoUser

\* C1 (amended): the same, for a signOut whose backend sign-out succeeded; a
\* signOut whose backend call failed completes and leaves the user in place.
C1_SignInOutReflected ==
  /\ (lastCall = Returned("signIn", NoError) /\ Quiet) => (user # NoUser /\ session.present)
  /\ (lastCall = Returned("signOut", NoError) /\ Quiet) => user = NoUser

C1_Witness ==
  /\ lastCall = Returned("signIn", NoError)
  /\ Quiet
  /\ user # NoUser

\* C2: when signUp created the account and the profile insert failed, a later
\* signIn with the same contact number and password is not turned away: a
\* signIn called with the credentials of an existing account that has no
\* profile row does not return 'No account found with this mobile number'.
C2_SignInAfterFailedProfile ==
  [][\A a \in authUsers :
       ( /\ siPc # "idle"
         /\ siPc' = "idle"
         /\ a.email = EmailOf(siArgs.mobile)
         /\ a.password = siArgs.password
         /\ \A q \in profiles : q.user_id # a.id )
       => lastCall' # Returned("signIn", NoAccount)]_vars

\* the rules of the forms, as the claims state them
DigitSet == {"0", "1", "2", "3", "4", "5", "6", "7", "8", "9"}
RuleName(n) == Len(n) >= 2 /\ Len(n) <= 50
RuleContact(m) == Len(m) = 10 /\ \A i \in 1..Len(m) : m[i] \in DigitSet
RuleSecret(p) == Len(p) >= 6
RuleSecretRegister(p) == Len(p) >= 6 /\ Len(p) <= 100
RuleArea(a) == a # <<>> /\ a[1] # "-" /\ \E i \in 1..Len(a) : a[i] \in DigitSet \ {"0"}

FailingStated(fd) ==
  {f \in {"name"} : ~RuleName(fd.name)}
  \cup {f \in {"mobileNumber"} : ~RuleContact(fd.mobileNumber)}
  \cup {f \in {"password"} : ~RuleSecret(fd.password)}
  \cup {f \in {"farmArea"} : ~RuleArea(fd.farmArea)}
FailingRegister(fd) ==
  {f \in {"name"} : ~RuleName(fd.name)}
  \cup {f \in {"mobileNumber"} : ~RuleContact(fd.mobileNumber)}
  \cup {f \in {"password"} : ~RuleSecretRegister(fd.password)}
  \cup {f \in {"farmArea"} : ~RuleArea(fd.farmArea)}
FailingLogin(m, p) ==
  {f \in {"mobileNumber"} : ~RuleContact(m)} \cup {f \in {"password"} : ~RuleSecret(p)}

RegisterSubmitted(failing) ==
  IF failing = {}
    THEN /\ regErrors' = <<>>
         /\ suPc' = "auth"
         /\ suArgs'.mobileNumber = formData.mobileNumber
         /\ suArgs'.password = formData.password
    ELSE /\ failing \subseteq DOMAIN regErrors'
         /\ UNCHANGED <<backendVars, loading, suVars, siVars>>
LoginSubmitted(failing) ==
  IF failing = {}
    THEN /\ logErrors' = <<>>
         /\ siPc' = "lookup"
         /\ siArgs' = [mobile |-> mobileNumber, password |-> password]
    ELSE /\ failing \subseteq DOMAIN logErrors'
         /\ UNCHANGED <<backendVars, loading, suVars, siVars>>

\* C3 (as stated): a submitted form that fails one of the rules (name 2..50
\* characters, contact exactly 10 digits, secret at least 6 characters, area
\* a positive number) starts no backend call and gets an error entry for each
\* failing field; a form that satisfies them empties the errors map and
\* starts signUp / signIn once.
C3_StatedRules ==
  [][ /\ RegisterHandleSubmit => RegisterSubmitted(FailingStated(formData))
      /\ LoginHandleSubmit => LoginSubmitted(FailingLogin(mobileNumber, password)) ]_vars

\* C3 (amended): the same, with the registration secret of 6..100 characters
\* (a longer one is refused with 'Password too long').
C3_SubmitValidated ==
  [][ /\ RegisterHandleSubmit => RegisterSubmitted(FailingRegister(formData))
      /\ LoginHandleSubmit => LoginSubmitted(FailingLogin(mobileNumber, password)) ]_vars

C3_Witness ==
  /\ route = "/register"
  /\ formData.name = <<"R">>
  /\ DOMAIN regErrors = {"name"}
  /\ suPc = "idle"

\* C4: a selected file is accepted (it becomes selectedFile, without a
\* rejection toast) if and only if its type is image/jpeg, image/png or
\* application/pdf and its size is at most 5,242,880 bytes, whatever the
\* user, the previously selected file and the state of an analysis.
C4_FileAcceptance ==
  [][\A f \in Files :
       handleFileSelect(f) =>
         IF f.type \in {"image/jpeg", "image/png", "application/pdf"} /\ f.size <= 5242880
           THEN selectedFile' = f /\ result' = NoResult /\ toast' = NoToast
           ELSE selectedFile' = selectedFile
                /\ toast' \in {"Invalid File Type", "File Too Large"}]_vars

C4_Witness ==
  /\ selectedFile = [type |-> "application/pdf", size |-> 5242880]
  /\ anPc = "analysis"
  /\ result = NoResult

\* C5: a rejected file selection changes nothing but the toast: selectedFile,
\* result, the stored objects and rows and every handler stay as they were.
C5_RejectionFrame ==
  [][toast' \in {"Invalid File Type", "File Too Large"} =>
       UNCHANGED <<backendVars, gsVars, sessVars, route, pageVars,
                   suVars, siVars, soPc, anVars, lastCall>>]_vars

C5_Witness ==
  /\ toast \in {"Invalid File Type", "File Too Large"}
  /\ result = MockResult
  /\ selectedFile # NoFile

\* C6: the stored contact number is the digits of the last entered text, in
\* order, without the non-digits, cut to the first 10.
StoredMobile == IF route = "/register" THEN formData.mobileNumber ELSE mobileNumber
DigitPositions(t) == {i \in 1..Len(t) : t[i] \in DigitSet}
NthDigit(t, k) ==
  t[CHOOSE i \in DigitPositions(t) : Cardinality({j \in DigitPositions(t) : j <= i}) = k]
C6_MobileDigits ==
  /\ Len(StoredMobile) = IF Cardinality(DigitPositions(lastTyped)) < 10
                           THEN Cardinality(DigitPositions(lastTyped)) ELSE 10
  /\ \A k \in 1..Len(StoredMobile) : StoredMobile[k] = NthDigit(lastTyped, k)

C6_Witness ==
  /\ Len(lastTyped) = 11
  /\ Cardinality(DigitPositions(lastTyped)) = 10
  /\ lastTyped[3] = "-"
  /\ Len(StoredMobile) = 10

SignUpReturns == suPc # "idle" /\ suPc' = "idle"

\* C7 (as stated): a valid registration whose account creation the backend
\* accepted ends with a redirect to the login view and an empty errors map;
\* the redirect happens if and only if signUp returned no error.
C7_AcceptedRedirects ==
  [][SignUpReturns =>
       /\ suPc = "insert" => (route' = "/login" /\ regErrors = <<>>)
       /\ route' = "/login" <=> lastCall'.error = NoError
       /\ route' = route <=> lastCall'.error # NoError]_vars

\* C7 (amended): the same, unless the profile insert throws: signUp then
\* returns the thrown error and the page stays on the registration view.
C7_RegistrationRedirect ==
  [][SignUpReturns =>
       /\ (suPc = "insert" /\ lastCall'.error # "thrown")
            => (route' = "/login" /\ regErrors = <<>> /\ logErrors' = <<>>)
       /\ route' = "/login" <=> lastCall'.error = NoError
       /\ route' = route <=> lastCall'.error # NoError]_vars

C7_Witness ==
  /\ route = "/login"
  /\ lastCall = Returned("signUp", NoError)
  /\ \E q \in profiles : q.name = Ravi /\ q.mobile_number = M1
  /\ \E a \in authUsers : a.email = EmailOf(M1) /\ a.password = Secret1

\* C8: the container starts unknown (loading, no user, no session), and user
\* and session always agree: user is set exactly when session is, and is the
\* session's user.
C8_UserSessionAgree ==
  /\ (loading = TRUE /\ user = NoUser /\ session = NoSession)
  /\ [](/\ user # NoUser <=> session.present
        /\ session.present => user = session.user
        /\ ~session.present => session = NoSession)

C8_Witness ==
  /\ user # NoUser
  /\ session.present
  /\ loading = FALSE

\* C9: user and session change only in the onAuthStateChange callback and in
\* the getSession callback; no step of signUp, signIn or signOut writes them.
C9_OnlyNotificationsWrite ==
  [][ /\ (user' # user \/ session' # session) => (onAuthStateChange \/ getSessionThen)
      /\ (suPc' # suPc \/ siPc' # siPc \/ soPc' # soPc) => UNCHANGED <<user, session>> ]_vars

C9_Witness ==
  /\ lastCall = Returned("signOut", NoError)
  /\ notifQ # <<>>
  /\ user # NoUser

Delivery == onAuthStateChange \/ getSessionThen
Scheduled(u) == timers' = Append(timers, u)

\* C11 (as stated): every delivery of an auth notification or of the
\* getSession result that sets a user schedules a deferred lookup of that
\* user's profile row.
C11_EveryTransitionSchedules ==
  [][(Delivery /\ user' # NoUser) => Scheduled(user')]_vars

\* C11 (amended): a lookup of the user's profile row is scheduled by the
\* delivery of a SIGNED_IN notification that carries a user, and by nothing
\* else: the getSession result and the other notifications schedule none.
C11_SignedInSchedules ==
  [][ /\ ( /\ onAuthStateChange
           /\ Head(notifQ).event = "SIGNED_IN"
           /\ Head(notifQ).session.present ) => Scheduled(Head(notifQ).session.user)
      /\ Len(timers') > Len(timers) =>
           /\ onAuthStateChange
           /\ Head(notifQ).event = "SIGNED_IN"
           /\ Scheduled(user')
      /\ getSessionThen => timers' = timers ]_vars

C11_Witness ==
  /\ timers # <<>>
  /\ user # NoUser
  /\ timers[Len(timers)] = user
  /\ lastCall = Returned("signIn", NoError)

\* C12: user, session and loading are set in the step that schedules the
\* lookup, and the step in which the lookup settles, whatever its outcome,
\* changes none of user, session and loading and emits no toast.
C12_LookupIsSilent ==
  [][ /\ Len(timers') > Len(timers) =>
           /\ user' = timers'[Len(timers')]
           /\ session' = [present |-> TRUE, user |-> user']
           /\ loading' = FALSE
      /\ Len(timers') < Len(timers) =>
           /\ UNCHANGED <<user, session, loading, backendVars, route, pageVars>>
           /\ toast' = NoToast ]_vars

C12_Witness ==
  /\ timers = <<>>
  /\ user # NoUser
  /\ loading = FALSE
  /\ lastCall = Returned("signIn", NoError)
  /\ notifQ = <<>>
  /\ route = "/"

\* C13: the profile insert of signUp is attempted only after the account
\* creation returned a user without error, and at most once per call: the
\* call waits for the insert only from the step that created the account,
\* leaves that wait only by returning, and only that return adds a profile
\* row (the row of the created user); when the account creation returns an
\* error the call returns that error and no row is added.
C13_DependentInsert ==
  [][ /\ (suPc # "insert" /\ suPc' = "insert") =>
           /\ suPc = "auth"
           /\ \E a \in authUsers' \ authUsers : a.id = suUser' /\ a.email = suArgs.email
      /\ (suPc = "insert" /\ suPc' # "insert") => suPc' = "idle"
      /\ profiles' # profiles =>
           /\ suPc = "insert" /\ suPc' = "idle"
           /\ \E q \in profiles' : q.user_id = suUser /\ profiles' = profiles \cup {q}
      /\ (suPc = "auth" /\ suPc' = "idle") =>
           /\ profiles' = profiles
           /\ authUsers' = authUsers
      /\ SignUpAuthResponse("error") => lastCall' = [call |-> "signUp", error |-> "authError"] ]_vars

C13_Witness ==
  /\ lastCall = Returned("signUp", NoError)
  /\ \E q \in profiles : \E a \in authUsers : q.user_id = a.id
  /\ suPc = "idle"

\* C14: the address signIn authenticates with is the contact number followed
\* by '@agrosanga.local', the address the Register page creates the account
\* with: the account of every profile row has the address signIn derives
\* from the row's contact number, and a successful signIn signs in the
\* account registered with the contact number entered.
C14_SameAddress ==
  /\ [](\A m \in {M1, M2, mobileNumber, formData.mobileNumber} :
          /\ SignInEmail(m) = m \o <<"@", "a", "g", "r", "o", "s", "a", "n", "g", "a",
                                     ".", "l", "o", "c", "a", "l">>
          /\ SignInEmail(m) = EmailOf(m))
  /\ [](suPc # "idle" => suArgs.email = SignInEmail(suArgs.mobileNumber))
  /\ [](\A a \in authUsers : \A q \in profiles :
          q.user_id = a.id => a.email = SignInEmail(q.mobile_number))
  /\ [][(siPc = "password" /\ siPc' = "idle"
          /\ lastCall' = [call |-> "signIn", error |-> NoError]) =>
          \E q \in profiles : q.mobile_number = siArgs.mobile /\ authUid' = q.user_id]_vars

C14_Witness ==
  /\ lastCall = Returned("signIn", NoError)
  /\ \E a \in authUsers : a.id = authUid /\ a.email = EmailOf(M1)
  /\ \E q \in profiles : q.user_id = authUid /\ q.mobile_number = M1

FailureTitles == {"Registration Error", "Profile Creation Error", "Login Error",
                  "Error signing out", "Analysis Failed"}
Failures == {"error", "throw"}

\* C15: every failure of an external call, thrown or returned as an error
\* value, makes the calling handler emit a failure toast: the step in which
\* the account creation, the profile insert, signIn's profile lookup, the
\* password check, the sign-out, the upload or the result insert fails emits
\* one of the failure toasts.
C15_FailuresSurface ==
  [][\A o \in Failures :
       ( \/ SignUpAuthResponse(o) \/ SignUpProfileResponse(o)
         \/ SignInLookupResponse(o) \/ SignInPasswordResponse(o)
         \/ SignOutResponse(o)
         \/ UploadResponse(o) \/ InsertResponse(o) )
       => toast' \in FailureTitles]_vars

InFlight ==
  (IF suPc # "idle" THEN 1 ELSE 0) + (IF siPc # "idle" THEN 1 ELSE 0)
  + (IF anPc \in {"upload", "insert"} THEN 1 ELSE 0)

\* C16: at any moment at most one backend request issued by a user-action
\* handler (sign-up, sign-in, analysis) is in flight.
C16_OneRequestInFlight == InFlight <= 1

Last(q) == q[Len(q)]
IsPrefix(p, q) == Len(p) <= Len(q) /\ SubSeq(q, 1, Len(p)) = p

\* C17: a profile, yield-prediction or crop-recommendation row is stored
\* only with the owner equal to the identity authenticated at the backend
\* in the step that stores it; an insert whose user_id differs from that
\* identity (the user signed out while the request was pending) stores
\* nothing.
C17_OwnerIsActingIdentity ==
  [][ /\ \A q \in profiles' \ profiles : q.user_id = authUid /\ authUid # NoUser
      /\ Len(yieldRows') > Len(yieldRows) =>
           Last(yieldRows').user_id = authUid /\ authUid # NoUser
      /\ Len(cropRows') > Len(cropRows) =>
           Last(cropRows').user_id = authUid /\ authUid # NoUser
      /\ (anPc = "insert" /\ anPc' # "insert" /\ anArgs.user # authUid) =>
           UNCHANGED <<yieldRows, cropRows>>
      /\ (suPc = "insert" /\ suPc' # "insert" /\ suUser # authUid) =>
           UNCHANGED profiles ]_vars

C17_Witness ==
  /\ authUid = NoUser
  /\ toast = "Analysis Complete!"
  /\ storage # <<>>
  /\ yieldRows = <<>>
  /\ cropRows = <<>>

\* C18: the stored yield-prediction and crop-recommendation rows only grow:
\* every step keeps the rows stored before, unchanged and in place.
C18_AppendOnly ==
  [][IsPrefix(yieldRows, yieldRows') /\ IsPrefix(cropRows, cropRows')]_vars

C18_Witness ==
  /\ Len(yieldRows) = 2
  /\ yieldRows[1] # yieldRows[2]
  /\ authUid = NoUser
  /\ anPc = "idle"

\* C20: every upload goes to the 'soil-reports' bucket under the folder of
\* the user the handler ran for (the container's user when the analysis was
\* started), and an object is stored only when that user is the identity
\* authenticated at the backend.
C20_UploadScoped ==
  [][ /\ (anPc = "idle" /\ anPc' = "upload") => (anArgs'.user = user /\ user # NoUser)
      /\ Len(storage') > Len(storage) =>
           /\ anPc = "upload"
           /\ storage' = Append(storage, [folder |-> anArgs.user, name |-> anArgs.stamp])
           /\ anArgs.user = authUid
      /\ (anPc = "upload" /\ anPc' # "upload" /\ anArgs.user # authUid) =>
           (storage' = storage /\ toast' = "Analysis Failed") ]_vars

C20_Witness ==
  /\ storage = <<>>
  /\ toast = "Analysis Failed"
  /\ authUid = NoUser
  /\ lastCall = Returned("signOut", NoError)

\* C19: no two profile rows share a contact number, no account has more than
\* one profile row, and every profile row belongs to exactly one existing
\* account.
C19_ProfilesOneToOne ==
  /\ \A p \in profiles : \A q \in profiles :
       (p.mobile_number = q.mobile_number \/ p.user_id = q.user_id) => p = q
  /\ \A q \in profiles : Cardinality({a \in authUsers : a.id = q.user_id}) = 1

C19_Witness ==
  /\ Cardinality(authUsers) = 2
  /\ Cardinality(profiles) = 1
  /\ \E q \in profiles : q.mobile_number = M1
  /\ lastCall = Returned("signUp", NoError)
  /\ toast = "Profile Creation Error"

\* C21: a run performs upload, simulated analysis and insert in this order:
\* it starts (with the upload) only with a user and a selected file, the
\* analysis starts only from a stored upload, the insert is issued only when
\* the analysis resolved, and rows are written only by the insert; a failed
\* upload ends the run with 'Analysis Failed' and leaves result, the stored
\* objects and the rows unchanged; a refused start ('Error') changes nothing.
C21_RunOrder ==
  [][ /\ (anPc # "upload" /\ anPc' = "upload") =>
           /\ anPc = "idle"
           /\ user # NoUser /\ selectedFile # NoFile
           /\ anArgs'.file = selectedFile /\ anArgs'.user = user
      /\ (anPc # "analysis" /\ anPc' = "analysis") =>
           /\ anPc = "upload"
           /\ Len(storage') = Len(storage) + 1
      /\ (anPc # "insert" /\ anPc' = "insert") => anPc = "analysis"
      /\ (yieldRows' # yieldRows \/ cropRows' # cropRows) => anPc = "insert"
      /\ (anPc = "upload" /\ anPc' \notin {"upload", "analysis"}) =>
           /\ anPc' = "idle"
           /\ toast' = "Analysis Failed"
           /\ UNCHANGED <<result, storage, yieldRows, cropRows>>
      /\ toast' = "Error" =>
           UNCHANGED <<backendVars, sessVars, route, pageVars, anVars>> ]_vars

C21_Witness ==
  /\ toast = "Analysis Failed"
  /\ result = MockResult
  /\ Len(storage) = 1
  /\ authUid # NoUser
  /\ anPc = "idle"

\* C22: signUp, signIn and signOut issue each backend call at most once per
\* invocation (the calls follow one another and none is repeated), every
\* invocation returns once its calls settle, the return sets loading to false,
\* and signOut returns normally also when its call rejects (the Navbar goes on
\* to '/').
C22_CallsTerminate ==
  /\ [][ /\ suPc' # suPc =>
              /\ <<suPc, suPc'>> \in {<<"idle", "auth">>, <<"auth", "insert">>,
                                      <<"auth", "idle">>, <<"insert", "idle">>}
              /\ suPc' = "idle" => loading' = FALSE /\ lastCall'.call = "signUp"
         /\ siPc' # siPc =>
              /\ <<siPc, siPc'>> \in {<<"idle", "lookup">>, <<"lookup", "password">>,
                                      <<"lookup", "idle">>, <<"password", "idle">>}
              /\ siPc' = "idle" => loading' = FALSE /\ lastCall'.call = "signIn"
         /\ soPc' # soPc =>
              /\ <<soPc, soPc'>> \in {<<"idle", "signOut">>, <<"signOut", "idle">>}
              /\ soPc' = "idle" =>
                   loading' = FALSE /\ lastCall'.call = "signOut" /\ route' = "/"
         /\ (suPc' = suPc /\ suPc # "idle") => suArgs' = suArgs
         /\ (siPc' = siPc /\ siPc # "idle") => siArgs' = siArgs ]_vars
  /\ (suPc # "idle") ~> (suPc = "idle")
  /\ (siPc # "idle") ~> (siPc = "idle")
  /\ (soPc # "idle") ~> (soPc = "idle")

C22_Witness ==
  /\ lastCall = Returned("signOut", "throw")
  /\ toast = "Error signing out"
  /\ loading = FALSE
  /\ soPc = "idle"
  /\ authUid # NoUser

\* C23 (as stated): when nobody is signed in and signIn was called with the
\* contact number of a registered account whose profile row is stored, the
\* profile lookup that the backend answers finds the row and signIn goes on to
\* the password check.
C23_AnonymousLookupFinds ==
  [][ ( /\ authUid = NoUser
        /\ RaviProfile \in profiles
        /\ siPc = "lookup"
        /\ siArgs.mobile = RaviProfile.mobile_number
        /\ SignInLookupResponse("ok") )
      => siPc' = "password" ]_vars

\* C24: signIn issues the password check only after the profile lookup
\* returned a row; when the lookup returns no row (none visible, or the lookup
\* resolved with an error) signIn returns 'No account found with this mobile
\* number' with the 'Login Error' notification and the backend session is not
\* touched; the Login page goes to '/' exactly when signIn returned no error.
C24_LookupGatesPassword ==
  [][ /\ (siPc # "password" /\ siPc' = "password") =>
           /\ siPc = "lookup"
           /\ Cardinality(ProfileByMobile(siArgs.mobile)) = 1
      /\ ( \/ SignInLookupResponse("error")
           \/ (SignInLookupResponse("ok") /\ ProfileByMobile(siArgs.mobile) = {}) ) =>
           /\ siPc' = "idle"
           /\ lastCall' = Returned("signIn", NoAccount)
           /\ toast' = "Login Error"
           /\ UNCHANGED <<authUid, notifQ>>
      /\ (authUid' # authUid /\ authUid' # NoUser) => siPc = "password"
      /\ (siPc # "idle" /\ siPc' = "idle") =>
           /\ lastCall'.call = "signIn"
           /\ IF lastCall'.error = NoError THEN route' = "/" ELSE route' = route ]_vars

C24_Witness ==
  /\ lastCall = Returned("signIn", NoAccount)
  /\ toast = "Login Error"
  /\ route = "/login"
  /\ profiles = {}
  /\ siPc = "idle"

\* C25 (as stated): while a signUp, signIn or signOut call has started and not
\* yet returned, loading is true.
C25_LoadingWhileInFlight ==
  (suPc # "idle" \/ siPc # "idle" \/ soPc # "idle") => loading

C27_ResultOfSelectedFile ==
  [][ /\ selectedFile' # selectedFile => result' = NoResult
      /\ ( /\ anPc = "insert" /\ anPc' = "idle"
           /\ ~anDetached
           /\ toast' = "Analysis Complete!" )
         => (result' = MockResult /\ anArgs.file = selectedFile) ]_vars

\* C28 (as stated): every crop_recommendations insert that RecommendCrop
\* issues carries a weather snapshot and a positive numeric farm_area.
C28_InsertCarriesFarmArea ==
  [][ (anPc = "analysis" /\ anPc' = "insert" /\ anArgs.page = "/recommend-crop") =>
        /\ CropRow.weather_data
        /\ ~isNaN(CropRow.farm_area)
        /\ Positive(CropRow.farm_area) ]_vars

\* C29 (as stated): between the start of an analysis run and its completion
\* the progress value shown by the page that runs it never decreases.
C29_ProgressMonotone ==
  [][ (anPc # "idle" /\ ~anDetached /\ ~anDetached' /\ route' = route) =>
        progress' >= progress ]_vars

\* C30 (as stated): on the Register and Login pages isFormValid holds exactly
\* for the form states that pass the page's schema.
C30_ButtonAgreesWithSchema ==
  /\ route = "/register" =>
       (RegisterIsFormValid(formData) <=> registerSchema(formData) = <<>>)
  /\ route = "/login" =>
       (LoginIsFormValid(mobileNumber, password) <=> loginSchema(mobileNumber, password) = <<>>)

\* C30 (amended): on the Login page isFormValid holds exactly for the form
\* states that pass loginSchema; on the Register page a form state with
\* isFormValid passes registerSchema when its name has at most 50 and its
\* password at most 100 characters, and a form state that passes
\* registerSchema has isFormValid when its name without the surrounding
\* whitespace has at least 2 characters.
C30_ButtonVsSchema ==
  /\ route = "/register" =>
       /\ ( /\ RegisterIsFormValid(formData)
            /\ Len(formData.name) <= NameMax
            /\ Len(formData.password) <= PasswordMax )
          => registerSchema(formData) = <<>>
       /\ (registerSchema(formData) = <<>> /\ Len(Trim(formData.name)) >= NameMin)
          => RegisterIsFormValid(formData)
  /\ route = "/login" =>
       (LoginIsFormValid(mobileNumber, password) <=> loginSchema(mobileNumber, password) = <<>>)

\* the button was enabled, the form was submitted and validation refused it
C30_Witness ==
  /\ route = "/register"
  /\ RegisterIsFormValid(formData)
  /\ Len(formData.name) > NameMax
  /\ DOMAIN regErrors = {"name"}
  /\ suPc = "idle"
====
